---- MODULE Spec2Model ----
(***************************************************************************)
(* SimpleDateFormatStringParameterBuilder (great_expectations,             *)
(* rule_based_profiler/parameter_builder): the builder that picks, from a  *)
(* set of candidate strftime formats, the one matching the largest share   *)
(* of a column's non-null values, and the value-set builder's helper       *)
(* _get_unique_values_from_iterable_of_iterables.                          *)
(*                                                                         *)
(* Python values are tagged records [kind, val], so that None, a str, a    *)
(* list, a set, a dict and a float stay distinct values of the model.      *)
(* A float is an exact fraction [num, den] in lowest terms; [0, 0] is nan. *)
(***************************************************************************)
EXTENDS Integers, Sequences, FiniteSets, TLC

VARIABLES
    self,          \* the builder's fields set by __init__: _metric_value_kwargs, _threshold, _candidate_strings
    variables,     \* the rule state that "$variables...." references are resolved in
    batches,       \* the column data as the metric collaborator sees it, one record per Batch
    numeric,       \* the kind of integers the collaborator hands back: "int" (Python) or "numpy"
    last,          \* the latest _build_parameters call: its get_metrics calls and its outcome
    previous,      \* the outcome of the _build_parameters call before it
    parameter_container,     \* the ParameterContainer the build is handed, with earlier builders' entries
    parameters,              \* the parameters of the rule's domains, by Domain id
    iterable_of_iterables,   \* argument of _get_unique_values_from_iterable_of_iterables
    unique_values            \* what it returned

vars == <<self, variables, batches, numeric, last, previous, parameter_container, parameters,
          iterable_of_iterables, unique_values>>

---------------------------------------------------------------------------
(* Bounds *)

\* At most this many Batch objects are resolved for a build.
MaxBatches == 2
\* At most this many non-null values in the column, all batches together.
MaxRows == 2
\* _get_unique_values_from_iterable_of_iterables is given at most this many
\* collections, each a list of at most MaxLen values or a set, of 1..MaxValue.
MaxIterables == 2
MaxLen == 2
MaxValue == 2

---------------------------------------------------------------------------
(* Python values *)

PyNone == [kind |-> "None", val |-> "None"]
PyStr(s) == [kind |-> "str", val |-> s]
PyList(q) == [kind |-> "list", val |-> q]
PySet(S) == [kind |-> "set", val |-> S]
PyDict(d) == [kind |-> "dict", val |-> d]
PyFloat(n, d) == [kind |-> "float", val |-> [num |-> n, den |-> d]]

\* best_fmt_string: Optional[str] = None. No format string of the model is "None".
None == "None"

Range(q) == {q[i] : i \in 1..Len(q)}

\* The orders a collection of distinct elements can be iterated in.
Orders(S) == {q \in [1..Cardinality(S) -> S] : Range(q) = S}

RECURSIVE GCD(_, _)
GCD(a, b) == IF b = 0 THEN a ELSE GCD(b, a % b)

Zero == [num |-> 0, den |-> 1]
NaN == [num |-> 0, den |-> 0]

\* x > y and x >= y on floats; every comparison with nan is False.
Gt(x, y) == x.den # 0 /\ y.den # 0 /\ x.num * y.den > y.num * x.den
Ge(x, y) == x.den # 0 /\ y.den # 0 /\ x.num * y.den >= y.num * x.den

RECURSIVE SumSeq(_)
SumSeq(q) == IF q = <<>> THEN 0 ELSE Head(q) + SumSeq(Tail(q))

---------------------------------------------------------------------------
(* The builder *)

\* The built-in catalog, abridged to its first two entries: the build treats
\* every entry alike, and the catalog's size is no concern of the build.
CANDIDATE_STRINGS == {"%Y-%m-%d", "%m-%d-%Y"}

\* A format that the catalog does not hold.
CustomFormat == "%d.%m.%Y"

NonnullCountMetric == "column_values.nonnull.count"
UnexpectedCountMetric == "column_values.match_strftime_format.unexpected_count"

ThresholdReference == "$variables.threshold"
CandidateStringsReference == "$variables.candidate_strings"
MetricValueKwargsReference == "$variables.metric_value_kwargs"

\* get_parameter_value_and_validate_return_type: a reference string is looked
\* up in the rule state, anything else is returned as it is.
GetParameterValue(parameter_reference, vs) ==
    IF parameter_reference.kind = "str" /\ parameter_reference.val \in DOMAIN vs
    THEN vs[parameter_reference.val]
    ELSE parameter_reference

\* nonnull_count: int = sum(metric_values)
NonnullCount(bs) == SumSeq([i \in 1..Len(bs) |-> bs[i].nonnull])

\* if candidate_strings is not None and isinstance(candidate_strings, list):
\*     candidate_strings = set(candidate_strings)
\* else: candidate_strings = SimpleDateFormatStringParameterBuilder.CANDIDATE_STRINGS
CandidateStrings(slf, vs) ==
    LET candidate_strings == GetParameterValue(slf.candidate_strings, vs)
    IN  IF candidate_strings.kind # "None" /\ candidate_strings.kind = "list"
        THEN Range(candidate_strings.val)
        ELSE CANDIDATE_STRINGS

\* bool(self.metric_value_kwargs)
Truthy(v) ==
    CASE v.kind = "None" -> FALSE
      [] v.kind = "dict" -> DOMAIN v.val # {}
      [] v.kind = "str" -> v.val # ""
      [] OTHER -> TRUE

\* {**{"strftime_format": fmt_string}, **self.metric_value_kwargs}
MutantBaseOverrides(metric_value_kwargs, fmt_string) ==
    IF Truthy(metric_value_kwargs)
    THEN [k \in DOMAIN metric_value_kwargs.val \cup {"strftime_format"} |->
            IF k \in DOMAIN metric_value_kwargs.val THEN metric_value_kwargs.val[k] ELSE fmt_string]
    ELSE [k \in {"strftime_format"} |-> fmt_string]

\* {**self.metric_value_kwargs, **{"strftime_format": fmt_string}} when
\* self.metric_value_kwargs is truthy, {"strftime_format": fmt_string} otherwise
MatchStrftimeMetricValueKwargs(metric_value_kwargs, fmt_string) ==
    IF Truthy(metric_value_kwargs)
    THEN [k \in DOMAIN metric_value_kwargs.val \cup {"strftime_format"} |->
            IF k = "strftime_format" THEN fmt_string ELSE metric_value_kwargs.val[k]]
    ELSE [k \in {"strftime_format"} |-> fmt_string]

\* The loop over candidate_strings raises TypeError at its first pass when
\* self.metric_value_kwargs is a (non-empty) str: ** wants a mapping.
KwargsLoopRaises(metric_value_kwargs, order) ==
    order # <<>> /\ Truthy(metric_value_kwargs) /\ metric_value_kwargs.kind # "dict"

\* match_strftime_metric_value_kwargs_list, for the order the set is iterated in
MatchStrftimeMetricValueKwargsList(metric_value_kwargs, order) ==
    [i \in 1..Len(order) |-> MatchStrftimeMetricValueKwargs(metric_value_kwargs, order[i])]

\* One Batch's unexpected count for a format; a format the batch record does
\* not list matches none of its values.
UnexpectedCount(batch, fmt_string) ==
    IF fmt_string \in DOMAIN batch.unexpected THEN batch.unexpected[fmt_string]
    ELSE batch.nonnull

\* get_metrics with a list of value kwargs: one AttributedResolvedMetrics per
\* variant, each with one value per Batch, in the order the collaborator
\* returns them (perm).
GetMetrics(kwargs_list, bs, perm) ==
    [i \in 1..Len(kwargs_list) |->
        [metric_attributes |-> kwargs_list[perm[i]],
         metric_values |-> [b \in 1..Len(bs) |->
             UnexpectedCount(bs[b], kwargs_list[perm[i]]["strftime_format"])]]]

\* unexpected_count / nonnull_count
MutantFailureRatio(nonnull_count, unexpected_count) ==
    LET g == GCD(unexpected_count, nonnull_count)
    IN  IF nonnull_count = 0 THEN NaN
        ELSE [num |-> unexpected_count \div g, den |-> nonnull_count \div g]

\* success_ratio = (nonnull_count - match_strftime_unexpected_count) / nonnull_count
\* as a float. nan is what numpy integers give for 0 / 0; on Python ints the
\* division raises instead (BuildParametersOutcome).
SuccessRatio(nonnull_count, unexpected_count) ==
    LET n == nonnull_count - unexpected_count
        g == GCD(n, nonnull_count)
    IN  IF nonnull_count = 0 THEN NaN
        ELSE [num |-> n \div g, den |-> nonnull_count \div g]

\* format_string_success_ratios[...] = success_ratio, a dict: its items in
\* insertion order, a key set again keeping its place.
DictSet(items, key, value) ==
    IF \E i \in 1..Len(items) : items[i].key = key
    THEN [i \in 1..Len(items) |->
            IF items[i].key = key THEN [key |-> key, value |-> value] ELSE items[i]]
    ELSE Append(items, [key |-> key, value |-> value])

RECURSIVE FormatStringSuccessRatios(_, _, _)
FormatStringSuccessRatios(metric_values, nonnull_count, n) ==
    IF n = 0 THEN <<>>
    ELSE DictSet(FormatStringSuccessRatios(metric_values, nonnull_count, n - 1),
                 metric_values[n].metric_attributes["strftime_format"],
                 SuccessRatio(nonnull_count, SumSeq(metric_values[n].metric_values)))

\* if ratio >= best_ratio and ratio >= threshold: ...
MutantGreaterOrEqual(best, item, threshold) ==
    IF Ge(item.value, best.best_ratio) /\ Ge(item.value, threshold)
    THEN [best_fmt_string |-> item.key, best_ratio |-> item.value]
    ELSE best

\* if ratio >= threshold: ...
MutantNoBestCheck(best, item, threshold) ==
    IF Ge(item.value, threshold)
    THEN [best_fmt_string |-> item.key, best_ratio |-> item.value]
    ELSE best

\* if ratio > best_ratio: best_ratio = ratio, and best_fmt_string only when
\* ratio >= threshold
MutantRatioKept(best, item, threshold) ==
    IF Gt(item.value, best.best_ratio)
    THEN [best_fmt_string |-> IF Ge(item.value, threshold) THEN item.key ELSE best.best_fmt_string,
          best_ratio |-> item.value]
    ELSE best

\* if ratio > best_ratio and ratio >= threshold:
\*     best_fmt_string = fmt_string; best_ratio = ratio
SelectStep(best, item, threshold) ==
    IF Gt(item.value, best.best_ratio) /\ Ge(item.value, threshold)
    THEN [best_fmt_string |-> item.key, best_ratio |-> item.value]
    ELSE best

\* for fmt_string, ratio in format_string_success_ratios.items(): ...
RECURSIVE Select(_, _, _)
Select(items, threshold, n) ==
    IF n = 0 THEN [best_fmt_string |-> None, best_ratio |-> Zero]
    ELSE SelectStep(Select(items, threshold, n - 1), items[n], threshold)

\* A build: the get_metrics requests it issued, how it ended (status, and value
\* and details or error), and, when a get_metrics request failed, which one
\* (failed_request, 0 for none) and with what (raised_by_get_metrics).
NoBuild ==
    [calls |-> <<>>, status |-> "none", value |-> None, details |-> Zero, error |-> "none",
     failed_request |-> 0, raised_by_get_metrics |-> "none"]

\* _build_parameters, for the order the candidate set is iterated in (order),
\* the order the collaborator returns the per-candidate results in (perm) and
\* the kind of integers it returns (kind). The sum of no values is the Python
\* int 0 whatever the kind, and 0 / 0 on Python ints raises ZeroDivisionError.
BuildParametersOutcome(slf, vs, bs, order, perm, kind) ==
    LET nonnull_call ==
            [metric_name |-> NonnullCountMetric,
             metric_value_kwargs |-> slf.metric_value_kwargs,
             metric_values |-> [b \in 1..Len(bs) |-> bs[b].nonnull]]
        nonnull_count == SumSeq(nonnull_call.metric_values)
        kwargs_list == MatchStrftimeMetricValueKwargsList(slf.metric_value_kwargs, order)
        metric_values == GetMetrics(kwargs_list, bs, perm)
        unexpected_call ==
            [metric_name |-> UnexpectedCountMetric,
             metric_value_kwargs |-> kwargs_list,
             metric_values |-> metric_values]
        ratios == FormatStringSuccessRatios(metric_values, nonnull_count, Len(metric_values))
        threshold == GetParameterValue(slf.threshold, vs).val
        best == Select(ratios, threshold, Len(ratios))
    IN  IF KwargsLoopRaises(slf.metric_value_kwargs, order)
        THEN [NoBuild EXCEPT !.calls = <<nonnull_call>>, !.status = "raised",
                             !.error = "TypeError"]
        ELSE IF nonnull_count = 0 /\ order # <<>> /\ (kind = "int" \/ bs = <<>>)
        THEN [NoBuild EXCEPT !.calls = <<nonnull_call, unexpected_call>>,
                             !.status = "raised", !.error = "ZeroDivisionError"]
        ELSE [NoBuild EXCEPT !.calls = <<nonnull_call, unexpected_call>>,
                             !.status = "returned",
                             !.value = best.best_fmt_string,
                             !.details = best.best_ratio]

\* What a caller sees of a build: what it returned or raised, and (for the
\* record) the order it iterated the per-candidate results in.
Outcome(build) ==
    [status |-> build.status, value |-> build.value, details |-> build.details,
     error |-> build.error,
     results_order |->
        IF Len(build.calls) < 2 THEN <<>>
        ELSE [i \in 1..Len(build.calls[2].metric_values) |->
                build.calls[2].metric_values[i].metric_attributes["strftime_format"]]]

\* The requests a build has issued when its get_metrics request number failing
\* raises: the ones before it with the values they brought back, and the
\* failing one, which brings back none.
RequestsUpTo(slf, bs, order, failing) ==
    LET nonnull_call ==
            [metric_name |-> NonnullCountMetric,
             metric_value_kwargs |-> slf.metric_value_kwargs,
             metric_values |-> IF failing = 1 THEN <<>> ELSE [b \in 1..Len(bs) |-> bs[b].nonnull]]
        unexpected_call ==
            [metric_name |-> UnexpectedCountMetric,
             metric_value_kwargs |-> MatchStrftimeMetricValueKwargsList(slf.metric_value_kwargs, order),
             metric_values |-> <<>>]
    IN  IF failing = 1 THEN <<nonnull_call>> ELSE <<nonnull_call, unexpected_call>>

\* The failed request is issued a second time.
MutantRetried(slf, bs, order, failing, raised) ==
    LET calls == RequestsUpTo(slf, bs, order, failing)
    IN  [NoBuild EXCEPT
            !.calls = Append(calls, calls[failing]),
            !.status = "raised",
            !.error = raised,
            !.failed_request = failing,
            !.raised_by_get_metrics = raised]

\* _build_parameters when its get_metrics request number failing raises. No
\* try encloses either request, so no request follows the failing one, and
\* what it raised leaves _build_parameters.
GetMetricsRaises(slf, bs, order, failing, raised) ==
    [NoBuild EXCEPT
        !.calls = RequestsUpTo(slf, bs, order, failing),
        !.status = "raised",
        !.error = raised,
        !.failed_request = failing,
        !.raised_by_get_metrics = raised]

\* The kinds of integers the collaborator may hand back: Python ints or numpy
\* integers. The kind shows only in a division by zero, so "int" stands for
\* both when the non-null count is not 0.
IntegerKinds(bs) == IF NonnullCount(bs) = 0 THEN {"int", "numpy"} ELSE {"int"}

---------------------------------------------------------------------------
(* Inputs *)

MetricValueKwargsValues ==
    { PyNone,
      PyDict([k \in {} |-> ""]),
      PyDict([k \in {"strftime_format", "parse_strings_as_datetimes"} |->
                 IF k = "strftime_format" THEN "%H:%M:%S" ELSE "True"]),
      PyStr(MetricValueKwargsReference) }

ThresholdValues == { PyFloat(0, 1), PyFloat(1, 1), PyStr(ThresholdReference) }

CandidateStringsValues ==
    { PyNone,
      PyList(<<>>),
      PyList(<<CustomFormat>>),
      PyList(<<"%Y-%m-%d", CustomFormat>>),
      PyList(<<CustomFormat, "%Y-%m-%d", CustomFormat>>),
      PySet({CustomFormat}),
      PyStr(CandidateStringsReference) }

RuleVariables ==
    (ThresholdReference :> PyFloat(1, 2))
    @@ (CandidateStringsReference :> PyList(<<"%m-%d-%Y">>))
    @@ (MetricValueKwargsReference :> PyDict([k \in {"parse_strings_as_datetimes"} |-> "True"]))

\* What an earlier builder of the same pass left in the container.
EarlierParameters ==
    ("$parameter.my_row_count" :> [value |-> "3", details |-> [num_batches |-> "3"]])

DomainId == "column:event_date"

\* What a failing get_metrics request raises.
MetricErrors == {"MetricResolutionError"}

\* One Batch: its non-null count and, per requested format, how many of its
\* non-null values do not match the format.
BatchValues(fmts) ==
    UNION { { [nonnull |-> n, unexpected |-> u] : u \in [fmts -> 0..n] } : n \in 0..MaxRows }

BatchLists(fmts) ==
    { bs \in UNION { [1..k -> BatchValues(fmts)] : k \in 0..MaxBatches } :
        NonnullCount(bs) <= MaxRows }

InitBuilder ==
    /\ self \in [metric_value_kwargs : MetricValueKwargsValues,
                 threshold : ThresholdValues,
                 candidate_strings : CandidateStringsValues]
    /\ variables = RuleVariables
    /\ batches \in BatchLists(CandidateStrings(self, variables))
    /\ numeric \in IntegerKinds(batches)
    /\ last = NoBuild
    /\ previous = Outcome(NoBuild)
    /\ parameter_container = EarlierParameters
    /\ parameters = (DomainId :> EarlierParameters)

\* __init__ and the state before any build
Init ==
    /\ InitBuilder
    /\ iterable_of_iterables = <<>>
    /\ unique_values = PyNone

\* @metric_value_kwargs.setter
SetMetricValueKwargs ==
    \E value \in MetricValueKwargsValues :
        /\ value # self.metric_value_kwargs
        /\ self' = [self EXCEPT !.metric_value_kwargs = value]
        /\ last' = NoBuild
        /\ previous' = Outcome(NoBuild)
        /\ UNCHANGED <<variables, batches, numeric, parameter_container, parameters,
                       iterable_of_iterables, unique_values>>

\* _build_parameters
BuildParameters ==
    \E order \in Orders(CandidateStrings(self, variables)) :
      \E perm \in Orders(1..Len(order)) :
        /\ last' = BuildParametersOutcome(self, variables, batches, order, perm, numeric)
        /\ previous' = Outcome(last)
        /\ UNCHANGED <<self, variables, batches, numeric, parameter_container, parameters,
                       iterable_of_iterables, unique_values>>

Next == SetMetricValueKwargs \/ BuildParameters

Spec == Init /\ [][Next]_vars

\* _build_parameters with a get_metrics request that fails: the first request,
\* or the second when the build gets as far as issuing it.
BuildParametersGetMetricsRaises ==
    \E order \in Orders(CandidateStrings(self, variables)) :
      \E failing \in 1..2 :
        \E raised \in MetricErrors :
          /\ failing = 2 => ~KwargsLoopRaises(self.metric_value_kwargs, order)
          /\ last' = GetMetricsRaises(self, batches, order, failing, raised)
          /\ previous' = Outcome(last)
          /\ UNCHANGED <<self, variables, batches, numeric, parameter_container,
                         parameters, iterable_of_iterables, unique_values>>

NextWithFailures == SetMetricValueKwargs \/ BuildParameters \/ BuildParametersGetMetricsRaises

\* A builder constructed with the default threshold.
InitWithFailures == Init /\ self.threshold = PyFloat(1, 1)

\* The builder with a metric collaborator that can fail.
SpecWithFailures == InitWithFailures /\ [][NextWithFailures]_vars

---------------------------------------------------------------------------
(* What the properties speak of, read off the state *)

\* N, the total non-null count, and U_c, candidate c's unexpected counts summed
\* over the batches.
TotalNonnull == SumSeq([b \in 1..Len(batches) |-> batches[b].nonnull])
TotalUnexpected(c) == SumSeq([b \in 1..Len(batches) |-> batches[b].unexpected[c]])

\* The threshold and candidate_strings the configuration resolves to.
ResolvedThreshold ==
    IF self.threshold.kind = "str" THEN variables[self.threshold.val].val
    ELSE self.threshold.val
ResolvedCandidateStrings ==
    IF self.candidate_strings.kind = "str" THEN variables[self.candidate_strings.val]
    ELSE self.candidate_strings

\* The latest build got its answer to the fanned-out request.
Evaluated == Len(last.calls) = 2
\* The candidates it asked about, and the order it iterated their results in.
EvaluatedCandidates ==
    IF Evaluated
    THEN {last.calls[2].metric_value_kwargs[i]["strftime_format"] :
            i \in 1..Len(last.calls[2].metric_value_kwargs)}
    ELSE {}
ResultsOrder == Outcome(last).results_order

\* success_ratio(c) >= t and success_ratio(c) > success_ratio(d), for N > 0
Qualifies(c, t) == (TotalNonnull - TotalUnexpected(c)) * t.den >= t.num * TotalNonnull
HigherRatio(c, d) ==
    (TotalNonnull - TotalUnexpected(c)) * TotalNonnull
        > (TotalNonnull - TotalUnexpected(d)) * TotalNonnull
IsSuccessRatioOf(r, c) ==
    r.den > 0 /\ r.num * TotalNonnull = (TotalNonnull - TotalUnexpected(c)) * r.den

\* Two or more evaluated candidates tie on the highest success_ratio.
TieOnHighest ==
    \E c, d \in EvaluatedCandidates :
        /\ c # d
        /\ TotalUnexpected(c) = TotalUnexpected(d)
        /\ \A e \in EvaluatedCandidates : ~HigherRatio(e, c)

---------------------------------------------------------------------------
(* Properties *)

\* C1: with N > 0, a returned non-None format string c is an evaluated
\* candidate, details["success_ratio"] is (N - U_c) / N, that ratio is at least
\* the resolved threshold, and no evaluated candidate has a higher ratio.
C1_ReturnedIsBestQualifying ==
    (last.status = "returned" /\ last.value # None /\ TotalNonnull > 0) =>
        /\ last.value \in EvaluatedCandidates
        /\ IsSuccessRatioOf(last.details, last.value)
        /\ Qualifies(last.value, ResolvedThreshold)
        /\ \A d \in EvaluatedCandidates : ~HigherRatio(d, last.value)

C1_Witness ==
    /\ last.status = "returned" /\ last.value # None
    /\ Len(batches) = 2 /\ batches[1].nonnull = 1 /\ batches[2].nonnull = 1
    /\ TotalUnexpected(last.value) = 1
    /\ \E d \in EvaluatedCandidates : HigherRatio(last.value, d)

\* C2: with N > 0, whenever some evaluated candidate has success_ratio >= the
\* resolved threshold, the build returns a format string, not None.
C2_QualifyingCandidateSelected ==
    (last.status = "returned" /\ TotalNonnull > 0
        /\ \E c \in EvaluatedCandidates : Qualifies(c, ResolvedThreshold))
    => last.value # None

\* C3: when the candidates were evaluated and none has success_ratio >= the
\* resolved threshold, the build returns (None, {"success_ratio": 0.0}).
C3_NoMatchReturnsNoneZero ==
    (Evaluated /\ (TotalNonnull > 0 \/ EvaluatedCandidates = {})
        /\ \A c \in EvaluatedCandidates : ~Qualifies(c, ResolvedThreshold))
    => (last.status = "returned" /\ last.value = None /\ last.details = Zero)

C3_Witness ==
    /\ last.status = "returned" /\ last.value = None /\ last.details = Zero
    /\ TotalNonnull = 2
    /\ Cardinality(EvaluatedCandidates) = 2
    /\ \E c \in EvaluatedCandidates : TotalUnexpected(c) = 1
    /\ \A c \in EvaluatedCandidates : ~Qualifies(c, ResolvedThreshold)

\* C4: when candidate_strings resolves to a list or a set, the formats
\* evaluated are exactly its distinct elements; the catalog is for None only.
C4_EvaluatedAreTheConfigured ==
    (last.status = "returned" /\ ResolvedCandidateStrings.kind \in {"list", "set"}) =>
        EvaluatedCandidates =
            (IF ResolvedCandidateStrings.kind = "list"
             THEN Range(ResolvedCandidateStrings.val)
             ELSE ResolvedCandidateStrings.val)

\* C5: when the non-null counts sum to 0, the build does not raise and returns
\* (None, {"success_ratio": 0.0}). (Stated for metric_value_kwargs that are no
\* reference string.)
C5_ZeroNonnullIsNoMatch ==
    (last.status # "none" /\ TotalNonnull = 0 /\ self.metric_value_kwargs.kind # "str")
    => (last.status = "returned" /\ last.value = None /\ last.details = Zero)

\* C6 as claimed: two builds of the same configuration over the same metric
\* values end alike, whatever the orders of iteration.
C6_SameOutcomeTwice ==
    (last.status # "none" /\ previous.status # "none") =>
        /\ previous.status = last.status
        /\ previous.error = last.error
        /\ previous.value = last.value
        /\ previous.details = last.details

\* C6 as amended: two builds of the same configuration over the same metric
\* values end with the same status and details, and with the same value
\* whenever they iterated the per-candidate results in the same order or no two
\* candidates tie on the highest success_ratio.
C6_SameOutcomeUnlessTieReordered ==
    (last.status # "none" /\ previous.status # "none") =>
        /\ previous.status = last.status
        /\ previous.error = last.error
        /\ previous.details = last.details
        /\ (previous.results_order = ResultsOrder \/ ~TieOnHighest)
            => previous.value = last.value

C6_Witness ==
    /\ last.status = "returned" /\ previous.status = "returned"
    /\ Len(ResultsOrder) = 2
    /\ previous.results_order # ResultsOrder
    /\ ~TieOnHighest
    /\ last.value # None /\ previous.value = last.value
    /\ \E c \in EvaluatedCandidates : c # last.value /\ Qualifies(c, ResolvedThreshold)

\* C8: a metric_value_kwargs given as a reference string is resolved before
\* the candidate's strftime_format is merged in, and the build raises no
\* TypeError.
C8_ReferenceKwargsMerged ==
    (last.status # "none" /\ self.metric_value_kwargs.kind = "str") =>
        /\ last.error # "TypeError"
        /\ Evaluated => \A i \in 1..Len(last.calls[2].metric_value_kwargs) :
            \A k \in DOMAIN variables[self.metric_value_kwargs.val].val :
                /\ k \in DOMAIN last.calls[2].metric_value_kwargs[i]
                /\ k # "strftime_format" =>
                    last.calls[2].metric_value_kwargs[i][k]
                        = variables[self.metric_value_kwargs.val].val[k]

\* C9: on a tie for the highest qualifying success_ratio the format returned
\* is the first of the tied ones in the order the results were iterated: none
\* before it has the same ratio.
C9_FirstSeenWinsTie ==
    (last.status = "returned" /\ last.value # None) =>
        \A i, j \in 1..Len(ResultsOrder) :
            (ResultsOrder[i] = last.value /\ j < i)
            => TotalUnexpected(ResultsOrder[j]) # TotalUnexpected(last.value)

C9_Witness ==
    /\ last.status = "returned" /\ last.value # None
    /\ Len(ResultsOrder) = 2
    /\ ResultsOrder[1] = last.value
    /\ TotalUnexpected(ResultsOrder[2]) = TotalUnexpected(last.value)
    /\ TotalUnexpected(last.value) = 1

\* C10: a build that returns has issued exactly two get_metrics requests, the
\* non-null count and then one unexpected-count request whose value-kwargs
\* list holds one variant per distinct candidate: the base metric_value_kwargs
\* with strftime_format set to the candidate. The base is as it was.
C10_TwoRequestsOneVariantPerCandidate ==
    last.status = "returned" =>
        LET kwargs_list == last.calls[2].metric_value_kwargs
            base == self.metric_value_kwargs
            keys == IF base.kind = "dict" THEN DOMAIN base.val ELSE {}
        IN  /\ Len(last.calls) = 2
            /\ last.calls[1].metric_name = NonnullCountMetric
            /\ last.calls[1].metric_value_kwargs = base
            /\ last.calls[2].metric_name = UnexpectedCountMetric
            /\ Len(kwargs_list) = Cardinality(CandidateStrings(self, variables))
            /\ \A c \in CandidateStrings(self, variables) :
                \E i \in 1..Len(kwargs_list) : kwargs_list[i]["strftime_format"] = c
            /\ \A i \in 1..Len(kwargs_list) :
                /\ kwargs_list[i]["strftime_format"] \in CandidateStrings(self, variables)
                /\ DOMAIN kwargs_list[i] = keys \cup {"strftime_format"}
                /\ \A k \in keys \ {"strftime_format"} : kwargs_list[i][k] = base.val[k]

C10_Witness ==
    /\ last.status = "returned"
    /\ self.metric_value_kwargs.kind = "dict"
    /\ "strftime_format" \in DOMAIN self.metric_value_kwargs.val
    /\ self.candidate_strings.kind = "list" /\ Len(self.candidate_strings.val) = 3
    /\ Len(last.calls[2].metric_value_kwargs) = 2

\* C11: when a get_metrics request of a build fails, what it raised leaves
\* _build_parameters as it is, the failed request is the last one issued (it
\* is not issued again, and after a failed non-null count request no
\* unexpected-count request is sent), nothing is returned, and the
\* parameter_container, variables and parameters are as before the build.
C11_GetMetricsFailurePropagates ==
    last.failed_request > 0 =>
        /\ last.status = "raised"
        /\ last.error = last.raised_by_get_metrics
        /\ last.error \in MetricErrors
        /\ Len(last.calls) = last.failed_request
        /\ last.calls[1].metric_name = NonnullCountMetric
        /\ Len(last.calls) = 2 => last.calls[2].metric_name = UnexpectedCountMetric
        /\ last.calls[Len(last.calls)].metric_values = <<>>
        /\ last.value = None /\ last.details = Zero
        /\ parameter_container = EarlierParameters
        /\ parameters = (DomainId :> EarlierParameters)
        /\ variables = RuleVariables

C11_Witness ==
    /\ last.failed_request = 1
    /\ last.status = "raised"
    /\ Len(last.calls) = 1
    /\ CandidateStrings(self, variables) # {}
    /\ previous.status = "returned" /\ previous.value # None
    /\ parameter_container = EarlierParameters

---------------------------------------------------------------------------
(* The value-set builder's helper *)

\* only a list's elements are taken up
MutantSkipSets(x) == IF x.kind = "set" THEN {} ELSE Range(x.val)

\* set(x) of one per-batch collection, a list or a set
ToSet(x) == IF x.kind = "set" THEN x.val ELSE Range(x.val)

\* _get_unique_values_from_iterable_of_iterables: the iterative union of the
\* collections, left to right, starting from the empty set.
RECURSIVE GetUniqueValuesFromIterableOfIterables(_)
GetUniqueValuesFromIterableOfIterables(iterable) ==
    IF iterable = <<>> THEN {}
    ELSE GetUniqueValuesFromIterableOfIterables(SubSeq(iterable, 1, Len(iterable) - 1))
            \cup ToSet(iterable[Len(iterable)])

Iterables ==
    { PyList(q) : q \in UNION { [1..k -> 1..MaxValue] : k \in 0..MaxLen } }
    \cup { PySet(S) : S \in SUBSET (1..MaxValue) }

\* The builder stands by while the helper is exercised.
InitUnique ==
    /\ iterable_of_iterables \in UNION { [1..k -> Iterables] : k \in 0..MaxIterables }
    /\ unique_values = PyNone
    /\ self = [metric_value_kwargs |-> PyNone, threshold |-> PyFloat(1, 1),
               candidate_strings |-> PyNone]
    /\ variables = RuleVariables
    /\ batches = <<>>
    /\ numeric = "int"
    /\ last = NoBuild
    /\ previous = Outcome(NoBuild)
    /\ parameter_container = EarlierParameters
    /\ parameters = (DomainId :> EarlierParameters)

\* a call of _get_unique_values_from_iterable_of_iterables
GetUniqueValues ==
    /\ unique_values = PyNone
    /\ unique_values' = PySet(GetUniqueValuesFromIterableOfIterables(iterable_of_iterables))
    /\ UNCHANGED <<self, variables, batches, numeric, last, previous, parameter_container,
                   parameters, iterable_of_iterables>>

NextUnique == GetUniqueValues

SpecUnique == InitUnique /\ [][NextUnique]_vars

\* The elements of one collection, a list or a set.
ElementsOf(x) == IF x.kind = "list" THEN {x.val[i] : i \in 1..Len(x.val)} ELSE x.val
Reversed(q) == [i \in 1..Len(q) |-> q[Len(q) + 1 - i]]

\* C7: the result holds an element iff some collection does; it is the same
\* for the collections in any order, for lists with their elements in reverse,
\* for sets in place of the lists, and with any collection given a second time.
C7_UniqueValuesIsUnion ==
    unique_values.kind = "set" =>
        LET n == Len(iterable_of_iterables)
        IN  /\ \A x \in 1..MaxValue :
                x \in unique_values.val
                    <=> \E i \in 1..n : x \in ElementsOf(iterable_of_iterables[i])
            /\ unique_values.val \subseteq 1..MaxValue
            /\ \A perm \in Orders(1..n) :
                GetUniqueValuesFromIterableOfIterables(
                    [i \in 1..n |-> iterable_of_iterables[perm[i]]]) = unique_values.val
            /\ GetUniqueValuesFromIterableOfIterables(
                    [i \in 1..n |->
                        IF iterable_of_iterables[i].kind = "list"
                        THEN PyList(Reversed(iterable_of_iterables[i].val))
                        ELSE iterable_of_iterables[i]]) = unique_values.val
            /\ GetUniqueValuesFromIterableOfIterables(
                    [i \in 1..n |-> PySet(ElementsOf(iterable_of_iterables[i]))])
                        = unique_values.val
            /\ \A i \in 1..n :
                GetUniqueValuesFromIterableOfIterables(
                    Append(iterable_of_iterables, iterable_of_iterables[i]))
                        = unique_values.val

C7_Witness ==
    /\ unique_values = PySet({1, 2})
    /\ Len(iterable_of_iterables) = 2
    /\ iterable_of_iterables[1] = PyList(<<1, 1>>)
    /\ iterable_of_iterables[2] = PySet({1, 2})

====
